---- MODULE Spec2Model ----
(***************************************************************************)
(* Model of the AutoWaterPump firmware (src/src/main.cpp): the safety gate,*)
(* the valve/pump sequences of the manual, automatic and calibration        *)
(* dispenses, the calibration flow and the interval scheduler.              *)
(*                                                                          *)
(* The firmware is single threaded; pc is the position of that one thread.  *)
(* Time is kept as the firmware uses it: every timestamp of the code is     *)
(* read only in a difference millis() - timestamp, so the model keeps that  *)
(* difference.  Every delay() of the code advances all differences by its   *)
(* argument; display and bus traffic take no time.  Polling loops in which  *)
(* nothing happens are collapsed into one step of a whole number of passes. *)
(***************************************************************************)
EXTENDS Integers, Sequences, FiniteSets, TLC

VARIABLES
  pc,                   \* position of the firmware's single thread
  currentMenu,          \* main.cpp:143
  pumpPin,              \* PWM value last written to pumpPin (main.cpp:87)
  pumpValvePin,         \* level last written to pumpValvePin (main.cpp:86)
  waterDetectionPower,  \* level last written to waterDetectionPower (main.cpp:64)
  isAutoModeEnabled,    \* main.cpp:140
  sinceAutoTimer,       \* millis() - autoTimer (main.cpp:148) while auto mode
                        \* is enabled, 0 otherwise: autoTimer is read only
                        \* under isAutoModeEnabled and set when it is enabled
  waterInterval,        \* main.cpp:97
  waterIntervalHour,    \* main.cpp:98
  waterDuration,        \* main.cpp:100
  oneCupCalibrated,     \* main.cpp:102
  moistureLevel,        \* main.cpp:101
  sinceLastReading,     \* millis() - lastReading (main.cpp:1088), up to the
                        \* caching window
  lastMoisture,         \* static of readSoilMoisture (main.cpp:1089)
  lastRawMoistureValue, \* main.cpp:78
  soilPower,            \* level written to pinSoilPower (main.cpp:60)
  waterDetectionValue,  \* local of isPlantOkayToWater (main.cpp:1141)
  targetCups,           \* local of autoWatering (main.cpp:557), in half cups
  waterTestDuration,    \* local of waterCalibrationTest (main.cpp:885)
  currentlyWatering,    \* local of manualWatering (main.cpp:503)
  gateResult,           \* outcome of the last isPlantOkayToWater() call
  gateFresh,            \* history: the gate returned true in the current attempt
  valveOpenFor,         \* history: ms since pumpValvePin was last written HIGH,
                        \* up to pumpValveTiming
  pumpOffFor,           \* history: ms since pumpPin was last written 0, up to
                        \* pumpValveTiming
  sinceAttempt,         \* history: ms since the last automatic attempt of this
                        \* enabling of auto mode began, -1 when there was none
  stopRequest,          \* a stop of the running timed dispense has been asked for
  autoTimerSetBy,       \* history: the function that last assigned autoTimer
                        \* (main.cpp:148), "init" for its initializer
  elaspedTime,          \* local of showMessageCycleClock (main.cpp:465), -1
                        \* when it has not been computed
  remainingTime,        \* local of showMessageCycleClock (main.cpp:466)
  waterSensorPin,       \* level of the water level sensor at waterSensorPin
                        \* (main.cpp:73), LOW when the water is low
  buttonLevel,          \* level of each of buttonPins[0..3] (main.cpp:51), LOW
                        \* while the button is held down
  lastButtonState,      \* main.cpp:132
  sinceButtonChange,    \* millis() - lastTimeButtonStateChanged (main.cpp:130),
                        \* up to debounceDuration
  pressEvent,           \* history: the button for which isButtonPressed()
                        \* returned true in the last step, -1 when for none
  heldEvents,           \* history: for each button the number of times
                        \* isButtonPressed() returned true since it was last
                        \* pressed down, up to 2
  sincePress            \* history: ms since isButtonPressed() last returned
                        \* true, up to debounceDuration

vars == <<pc, currentMenu, pumpPin, pumpValvePin, waterDetectionPower,
          isAutoModeEnabled, sinceAutoTimer, waterInterval, waterIntervalHour,
          waterDuration, oneCupCalibrated, moistureLevel, sinceLastReading,
          lastMoisture, lastRawMoistureValue, soilPower, waterDetectionValue,
          targetCups,
          waterTestDuration,
          currentlyWatering, gateResult, gateFresh, valveOpenFor, pumpOffFor,
          sinceAttempt, stopRequest, autoTimerSetBy, elaspedTime,
          remainingTime, waterSensorPin, buttonLevel, lastButtonState,
          sinceButtonChange, pressEvent, heldEvents, sincePress>>

outputs  == <<pumpPin, pumpValvePin>>
settings == <<waterIntervalHour, waterDuration, oneCupCalibrated>>
gate     == <<waterDetectionPower, waterDetectionValue, gateResult,
              moistureLevel, lastMoisture, lastRawMoistureValue, soilPower>>
locals   == <<targetCups, waterTestDuration, currentlyWatering, elaspedTime,
              remainingTime>>
buttons  == <<buttonLevel, lastButtonState, sinceButtonChange, pressEvent,
              heldEvents, sincePress>>

----------------------------------------------------------------------------
(* Program constants *)

LOW  == 0
HIGH == 1

DRY_VALUE == 300
WET_VALUE == 880
waterDetectThreshold == 350
saturationThreshold == 70
pumpValveTiming == 2000
pumpHighSetting == 255
messageDisplayDuration == 3000
inputDebounceDelay == 25
bootAnimationDelay == 50
exitDelay == 1000
sensorWarmTime == 200
soilCacheWindow == 1000
debounceDuration == 100
documentedCacheWindow == 5000
waterIntervalDelta == 60
maxWaterIntervalHour == 1440
UIntBits == 16
AdcMax == 1023

(* Bounds of the model *)

IdlePasses == 800       \* passes of a polling loop collapsed into one idle step
MaxTestSteps == 1       \* waterTestDuration is followed this many 1000s around
                        \* its start value and around the ends of its range
MaxCupSteps == 0        \* targetCups is followed up to this many half cups
                        \* above 1.0 and around the upper end of its range
MaxIntervalSteps == 1   \* waterIntervalHour stays within this many deltas of 60 or 1440
PassTime == 50          \* ms a pass of a polling loop takes in which no call returns true

(* Readings the sensors deliver: for the moisture sensor the raw values of *)
(* 69 %, 70 % and 75 %, for the water detection sensor the threshold and   *)
(* the value above it                                                      *)
RawMoistureValues    == {705, 706, 735}
WaterDetectionValues == {350, 351}

(* Values the +/- buttons can set: the test duration, and with it the      *)
(* stored calibration factor, from 1000 to 60000 in steps of 1000, the     *)
(* target volume from 0.5 to 10 cups in steps of 0.5 (kept in half cups)   *)
TestDurations == {k * 1000 : k \in 1..60}
CupValues     == 1..20

\* the values of waterTestDuration and targetCups the model follows
NearTestDuration(x) ==
  \E c \in {1000, 30000, 60000} :
    x >= c - MaxTestSteps * 1000 /\ x <= c + MaxTestSteps * 1000
NearCups(x) ==
  x <= 2 + MaxCupSteps \/ (x >= 20 - MaxCupSteps /\ x <= 20 + MaxCupSteps)

\* the interval of the auto mode setup, from waterIntervalDelta to
\* maxWaterIntervalHour in steps of waterIntervalDelta
IntervalValues ==
  {k * waterIntervalDelta : k \in 1..(maxWaterIntervalHour \div waterIntervalDelta)}
NearInterval(x) ==
  \/ x <= waterIntervalDelta + MaxIntervalSteps * waterIntervalDelta
  \/ x >= maxWaterIntervalHour - MaxIntervalSteps * waterIntervalDelta

----------------------------------------------------------------------------
(* Arithmetic of the target *)

Pow2(n) == 2 ^ n

Min(a, b) == IF a < b THEN a ELSE b

\* waterInterval * 1000, evaluated in unsigned int (main.cpp:692, main.cpp:467)
IntervalMilli(w) == (w * 1000) % Pow2(UIntBits)

\* variant of constrain: the upper limit is not applied
constrain_noUpper(x, lo, hi) == IF x < lo THEN lo ELSE x

\* constrain(x, lo, hi) of Arduino.h
constrain(x, lo, hi) == IF x < lo THEN lo ELSE IF x > hi THEN hi ELSE x

\* a / b of C for b > 0: the quotient is truncated towards zero
quotient(a, b) == IF a >= 0 THEN a \div b ELSE -((-a) \div b)

\* map(x, in_min, in_max, out_min, out_max) of Arduino (long arithmetic)
map(x, inMin, inMax, outMin, outMax) ==
  quotient((x - inMin) * (outMax - outMin), inMax - inMin) + outMin

\* variant of calculateMoisture: readings at and above WET_VALUE are mapped
\* like the others
calculateMoisture_noWetLimit(raw) ==
  IF raw <= DRY_VALUE THEN 0
  ELSE map(raw, DRY_VALUE, WET_VALUE, 0, 100)

calculateMoisture(raw) ==
  IF raw <= DRY_VALUE THEN 0
  ELSE IF raw >= WET_VALUE THEN 100
  ELSE map(raw, DRY_VALUE, WET_VALUE, 0, 100)

\* SensorManager::getMoisturePercentage() for lastMoistureReading
getMoisturePercentage(lastMoistureReading) ==
  LET percentage == map(lastMoistureReading, DRY_VALUE, WET_VALUE, 0, 100)
  IN constrain(percentage, 0, 100)

----------------------------------------------------------------------------
(* Elapsed time *)

autoTimerAfter(d) == IF isAutoModeEnabled THEN sinceAutoTimer + d ELSE 0
attemptAfter(d)   == IF sinceAttempt = -1 THEN -1 ELSE sinceAttempt + d
readingAfter(d)   == Min(sinceLastReading + d, soilCacheWindow)
valveAfter(d)     == Min(valveOpenFor + d, pumpValveTiming)
pumpOffAfter(d)   == Min(pumpOffFor + d, pumpValveTiming)

\* d ms pass and no timestamp is written
delay(d) ==
  /\ sinceAutoTimer' = autoTimerAfter(d)
  /\ sinceAttempt' = attemptAfter(d)
  /\ sinceLastReading' = readingAfter(d)
  /\ valveOpenFor' = valveAfter(d)
  /\ pumpOffFor' = pumpOffAfter(d)

\* printExitCurrentMenu(): delay(200); delay(exitDelay)
exitMessageTime == 200 + exitDelay

\* the called menu function returns: its locals end, handleMenu() ends with
\* delay(100) (counted by the caller of this operator) and loop() resets
\* currentMenu
ReturnToLoop ==
  /\ pc' = "loop"
  /\ currentMenu' = 0
  /\ targetCups' = 2
  /\ waterTestDuration' = 30000
  /\ currentlyWatering' = FALSE
  /\ elaspedTime' = -1
  /\ remainingTime' = 0

----------------------------------------------------------------------------
(* State after setup() *)

\* the indexes of buttonPins[]: -, +, M, A
ButtonIndexes == 0..3

\* no button is held down and none has been for debounceDuration;
\* lastButtonState has the 0 of its definition or the LOW of the last press
buttonsReleased ==
  /\ buttonLevel = [p \in ButtonIndexes |-> HIGH]
  /\ lastButtonState = LOW
  /\ sinceButtonChange = debounceDuration
  /\ pressEvent = -1
  /\ heldEvents = [p \in ButtonIndexes |-> 0]
  /\ sincePress = debounceDuration

\* setup(): digitalWrite(waterDetectionPower, LOW);
\* digitalWrite(pumpValvePin, LOW); readSoilMoisture() takes the first
\* reading (delay(10)); displayStartup() animates 14 characters.
Init ==
  /\ pc = "loop"
  /\ currentMenu = 0
  /\ pumpPin = 0
  /\ pumpValvePin = LOW
  /\ waterDetectionPower = LOW
  /\ isAutoModeEnabled = FALSE
  /\ sinceAutoTimer = 0
  /\ waterInterval = 0
  /\ waterIntervalHour = 60
  /\ waterDuration = 20000
  /\ oneCupCalibrated = 0
  /\ moistureLevel = 0
  /\ sinceLastReading = 10 + 14 * bootAnimationDelay
  /\ lastRawMoistureValue \in RawMoistureValues
  /\ lastMoisture = calculateMoisture(lastRawMoistureValue)
  /\ soilPower = LOW
  /\ waterDetectionValue = 0
  /\ targetCups = 2
  /\ waterTestDuration = 30000
  /\ currentlyWatering = FALSE
  /\ gateResult = "none"
  /\ gateFresh = FALSE
  /\ valveOpenFor = pumpValveTiming
  /\ pumpOffFor = pumpValveTiming
  /\ sinceAttempt = -1
  /\ stopRequest = FALSE
  /\ autoTimerSetBy = "init"
  /\ elaspedTime = -1
  /\ remainingTime = 0
  /\ waterSensorPin \in {LOW, HIGH}
  /\ buttonsReleased

----------------------------------------------------------------------------
(* loop(), checkButtons(), handleMenu() *)

\* isWaterDetected(): digitalRead(waterSensorPin) == HIGH
isWaterDetected == waterSensorPin = HIGH

\* the water in the reservoir falls below or rises above the level sensor
waterLevelChange(level) ==
  /\ waterSensorPin # level
  /\ waterSensorPin' = level
  /\ delay(0)
  /\ UNCHANGED <<pc, currentMenu, outputs, isAutoModeEnabled, autoTimerSetBy,
                 waterInterval, settings, gate, locals, gateFresh, stopRequest,
                 buttons>>

\* the level changes while the firmware is in loop(), the only function
\* that reads the pin: a change during a menu function is first seen here
loop_waterLevel(level) ==
  /\ pc = "loop"
  /\ waterLevelChange(level)

\* loop(): the water level pin reads LOW, the warning is shown for 5 s
loop_lowWater ==
  /\ pc = "loop"
  /\ ~isWaterDetected
  /\ delay(5000)
  /\ UNCHANGED <<pc, currentMenu, outputs, isAutoModeEnabled, autoTimerSetBy, waterInterval,
                 settings, gate, locals, gateFresh, stopRequest, waterSensorPin, buttons>>

\* loop() with currentMenu == 0: checkButtons() sees button i pressed
checkButtons(i) ==
  /\ pc = "loop"
  /\ isWaterDetected
  /\ currentMenu = 0
  /\ currentMenu' = i + 1
  /\ delay(0)
  /\ UNCHANGED <<pc, outputs, isAutoModeEnabled, autoTimerSetBy, waterInterval, settings, gate,
                 locals, gateFresh, stopRequest, waterSensorPin, buttons>>

\* loop() with currentMenu != 0: handleMenu() enters the selected function;
\* manualWatering() starts with delay(500)
handleMenu ==
  /\ pc = "loop"
  /\ isWaterDetected
  /\ currentMenu # 0
  /\ pc' = CASE currentMenu = 1 -> "clock"
             [] currentMenu = 2 -> "settings"
             [] currentMenu = 3 -> "man_gate0"
             [] OTHER           -> "auto_entry"
  /\ delay(IF currentMenu = 3 THEN 500 ELSE 0)
  /\ UNCHANGED <<currentMenu, outputs, isAutoModeEnabled, autoTimerSetBy, waterInterval,
                 settings, gate, locals, gateFresh, stopRequest, waterSensorPin, buttons>>

----------------------------------------------------------------------------
(* readSoilMoisture() and isPlantOkayToWater() *)

\* readSoilMoisture() called d ms from now with the sensor delivering raw:
\* the cached value within the caching window, else a fresh reading that
\* takes delay(10)
readSoilMoisture_hit(d) == sinceLastReading + d < soilCacheWindow
readSoilMoisture_value(d, raw) ==
  IF readSoilMoisture_hit(d) THEN lastMoisture ELSE calculateMoisture(raw)
readSoilMoisture_time(d) == IF readSoilMoisture_hit(d) THEN 0 ELSE 10

\* the call at d ms from now, followed by another after ms in the caller
readSoilMoisture(d, raw, after) ==
  /\ lastMoisture' = readSoilMoisture_value(d, raw)
  /\ lastRawMoistureValue' =
       IF readSoilMoisture_hit(d) THEN lastRawMoistureValue ELSE raw
  /\ soilPower' = IF readSoilMoisture_hit(d) THEN soilPower ELSE LOW
  /\ sinceLastReading' =
       IF readSoilMoisture_hit(d)
         THEN readingAfter(d + after)
         ELSE Min(10 + after, soilCacheWindow)

\* variant of gateDecision: the water detection reading is tested first
gateDecision_waterFirst(m, wd) ==
  IF wd > waterDetectThreshold THEN "WaterAlreadyPresent"
  ELSE IF m >= saturationThreshold THEN "SoilSaturated"
  ELSE "Allowed"

\* variant of gateDecision: a reading at the threshold already denies
gateDecision_waterAtThreshold(m, wd) ==
  IF m >= saturationThreshold THEN "SoilSaturated"
  ELSE IF wd >= waterDetectThreshold THEN "WaterAlreadyPresent"
  ELSE "Allowed"

\* the decision of isPlantOkayToWater() for a moisture percentage m and a
\* water detection reading wd
gateDecision(m, wd) ==
  IF m >= saturationThreshold THEN "SoilSaturated"
  ELSE IF wd > waterDetectThreshold THEN "WaterAlreadyPresent"
  ELSE "Allowed"

\* waterDetectionPower on return: switched off only on the allowing path
gatePowerOnReturn(result) == IF result = "Allowed" THEN LOW ELSE HIGH

GatePcs == {"man_gate0", "man_gate1", "wp_gate", "cal_gate"}

\* variant of gateNextPc: a denied waterPlant() skips the timer update
gateNextPc_deniedNotRecorded(caller, result) ==
  CASE caller = "man_gate0" -> IF result = "Allowed" THEN "man_poll" ELSE "loop"
    [] caller = "man_gate1" -> IF result = "Allowed" THEN "man_open" ELSE "man_off"
    [] caller = "wp_gate"   -> IF result = "Allowed" THEN "wp_open" ELSE "clock_btn"
    [] OTHER                -> IF result = "Allowed" THEN "cal_open" ELSE "cal_ask"

\* where the caller continues
gateNextPc(caller, result) ==
  CASE caller = "man_gate0" -> IF result = "Allowed" THEN "man_poll" ELSE "loop"
    [] caller = "man_gate1" -> IF result = "Allowed" THEN "man_open" ELSE "man_off"
    [] caller = "wp_gate"   -> IF result = "Allowed" THEN "wp_open" ELSE "wp_ret"
    [] OTHER                -> IF result = "Allowed" THEN "cal_open" ELSE "cal_ask"

\* variant of isPlantOkayToWater: the gate also writes autoTimer = millis()
isPlantOkayToWater_writesAutoTimer(wd, raw) ==
  /\ pc \in GatePcs
  /\ LET m == readSoilMoisture_value(sensorWarmTime, raw)
         result == gateDecision(m, wd)
         leaves == pc = "man_gate0" /\ result # "Allowed"
         after == (IF result = "Allowed" THEN 0 ELSE 3000)
                    + (IF leaves THEN 100 ELSE 0)
         total == sensorWarmTime + readSoilMoisture_time(sensorWarmTime) + after
     IN /\ waterDetectionValue' = wd
        /\ readSoilMoisture(sensorWarmTime, raw, after)
        /\ moistureLevel' = m
        /\ gateResult' = result
        /\ gateFresh' = (result = "Allowed")
        /\ waterDetectionPower' = gatePowerOnReturn(result)
        /\ sinceAutoTimer' = 0
        /\ sinceAttempt' = attemptAfter(total)
        /\ valveOpenFor' = valveAfter(total)
        /\ pumpOffFor' = pumpOffAfter(total)
        /\ IF leaves
             THEN ReturnToLoop
             ELSE /\ pc' = gateNextPc(pc, result)
                  /\ UNCHANGED <<currentMenu, locals>>
  /\ UNCHANGED <<outputs, isAutoModeEnabled, autoTimerSetBy, waterInterval, settings,
                 stopRequest, waterSensorPin, buttons>>

\* one call of isPlantOkayToWater(): power on, warm up, read both sensors,
\* decide; a denial shows its message for 3 s.  A denial at the entry of
\* manualWatering() ends the function.
isPlantOkayToWater(wd, raw) ==
  /\ pc \in GatePcs
  /\ LET m == readSoilMoisture_value(sensorWarmTime, raw)
         result == gateDecision(m, wd)
         leaves == pc = "man_gate0" /\ result # "Allowed"
         after == (IF result = "Allowed" THEN 0 ELSE 3000)
                    + (IF leaves THEN 100 ELSE 0)
         total == sensorWarmTime + readSoilMoisture_time(sensorWarmTime) + after
     IN /\ waterDetectionValue' = wd
        /\ readSoilMoisture(sensorWarmTime, raw, after)
        /\ moistureLevel' = m
        /\ gateResult' = result
        /\ gateFresh' = (result = "Allowed")
        /\ waterDetectionPower' = gatePowerOnReturn(result)
        /\ sinceAutoTimer' = autoTimerAfter(total)
        /\ sinceAttempt' = attemptAfter(total)
        /\ valveOpenFor' = valveAfter(total)
        /\ pumpOffFor' = pumpOffAfter(total)
        /\ IF leaves
             THEN ReturnToLoop
             ELSE /\ pc' = gateNextPc(pc, result)
                  /\ UNCHANGED <<currentMenu, locals>>
  /\ UNCHANGED <<outputs, isAutoModeEnabled, autoTimerSetBy, waterInterval, settings,
                 stopRequest, waterSensorPin, buttons>>

----------------------------------------------------------------------------
(* showMessageCycleClock() *)

\* variant of remainingTimeFor: the subtraction is not guarded (a negative
\* result stands for the wrapped unsigned long)
remainingTimeFor_unguarded(elapsed, w) == IntervalMilli(w) - elapsed

\* variant of remainingTimeFor: the product is computed in unsigned long
remainingTimeFor_longProduct(elapsed, w) ==
  LET intervalMilli == w * 1000
  IN IF elapsed < intervalMilli THEN intervalMilli - elapsed ELSE 0

\* unsigned long intervalMilli = waterInterval * 1000; remainingTime is
\* intervalMilli - elaspedTime if elaspedTime < intervalMilli, else 0
remainingTimeFor(elapsed, w) ==
  LET intervalMilli == IntervalMilli(w)
  IN IF elapsed < intervalMilli THEN intervalMilli - elapsed ELSE 0

\* the call d ms from now: without auto mode the function returns after the
\* date; with it elaspedTime = nowMs - autoTimer and remainingTime are
\* computed (the countdown they feed is on the display every other
\* dateAndCountDownDelay)
showMessageCycleClock(d) ==
  IF isAutoModeEnabled
    THEN /\ elaspedTime' = sinceAutoTimer + d
         /\ remainingTime' = remainingTimeFor(sinceAutoTimer + d, waterInterval)
    ELSE UNCHANGED <<elaspedTime, remainingTime>>

----------------------------------------------------------------------------
(* waterPlant() and autoWateringCheck() *)

\* the condition of autoWateringCheck() evaluated d ms from now
autoWateringDue(d) ==
  isAutoModeEnabled /\ sinceAutoTimer + d >= IntervalMilli(waterInterval)

\* variant of autoWateringCheck: the interval is not tested
autoWateringCheck_noInterval ==
  /\ pc = "clock"
  /\ isAutoModeEnabled
  /\ pc' = "wp_gate"
  /\ gateFresh' = FALSE
  /\ sinceAttempt' = 0
  /\ showMessageCycleClock(0)
  /\ UNCHANGED <<currentMenu, outputs, isAutoModeEnabled, autoTimerSetBy, sinceAutoTimer,
                 waterInterval, settings, gate, sinceLastReading, targetCups,
                 waterTestDuration, currentlyWatering, valveOpenFor,
                 pumpOffFor, stopRequest, waterSensorPin, buttons>>

\* a pass of the showClock() loop: showMessageCycleClock(), then
\* autoWateringCheck() finds the interval elapsed and calls waterPlant()
autoWateringCheck ==
  /\ pc = "clock"
  /\ autoWateringDue(0)
  /\ pc' = "wp_gate"
  /\ gateFresh' = FALSE
  /\ sinceAttempt' = 0
  /\ showMessageCycleClock(0)
  /\ UNCHANGED <<currentMenu, outputs, isAutoModeEnabled, autoTimerSetBy, sinceAutoTimer,
                 waterInterval, settings, gate, sinceLastReading, targetCups,
                 waterTestDuration, currentlyWatering, valveOpenFor,
                 pumpOffFor, stopRequest, waterSensorPin, buttons>>

\* digitalWrite(pumpValvePin, HIGH)
waterPlant_openValve ==
  /\ pc = "wp_open"
  /\ pumpValvePin' = HIGH
  /\ valveOpenFor' = 0
  /\ pc' = "wp_settle"
  /\ UNCHANGED <<currentMenu, pumpPin, isAutoModeEnabled, autoTimerSetBy, sinceAutoTimer,
                 waterInterval, settings, gate, sinceLastReading, locals,
                 gateFresh, pumpOffFor, sinceAttempt, stopRequest, waterSensorPin, buttons>>

\* delay(pumpValveTiming); analogWrite(pumpPin, pumpHighSetting)
waterPlant_startPump ==
  /\ pc = "wp_settle"
  /\ delay(pumpValveTiming)
  /\ pumpPin' = pumpHighSetting
  /\ pc' = "wp_dispense"
  /\ UNCHANGED <<currentMenu, pumpValvePin, isAutoModeEnabled, autoTimerSetBy, waterInterval,
                 settings, gate, locals, gateFresh, stopRequest, waterSensorPin, buttons>>

\* delay(waterDuration); analogWrite(pumpPin, 0)
waterPlant_stopPump ==
  /\ pc = "wp_dispense"
  /\ sinceAutoTimer' = autoTimerAfter(waterDuration)
  /\ sinceAttempt' = attemptAfter(waterDuration)
  /\ sinceLastReading' = readingAfter(waterDuration)
  /\ valveOpenFor' = valveAfter(waterDuration)
  /\ pumpPin' = 0
  /\ pumpOffFor' = 0
  /\ pc' = "wp_closing"
  /\ UNCHANGED <<currentMenu, pumpValvePin, isAutoModeEnabled, autoTimerSetBy, waterInterval,
                 settings, gate, locals, gateFresh, stopRequest, waterSensorPin, buttons>>

\* variant of waterPlant_closeValve: the valve is not written
waterPlant_closeValve_valveLeftOpen ==
  /\ pc = "wp_closing"
  /\ delay(pumpValveTiming)
  /\ pc' = "wp_done"
  /\ stopRequest' = FALSE
  /\ UNCHANGED <<waterSensorPin, buttons>>
  /\ UNCHANGED <<currentMenu, outputs, isAutoModeEnabled, autoTimerSetBy,
                 waterInterval, settings, gate, locals, gateFresh>>

\* delay(pumpValveTiming); digitalWrite(pumpValvePin, LOW)
waterPlant_closeValve ==
  /\ pc = "wp_closing"
  /\ delay(pumpValveTiming)
  /\ pumpValvePin' = LOW
  /\ pc' = "wp_done"
  /\ stopRequest' = FALSE
  /\ UNCHANGED <<waterSensorPin, buttons>>
  /\ UNCHANGED <<currentMenu, pumpPin, isAutoModeEnabled, autoTimerSetBy, waterInterval,
                 settings, gate, locals, gateFresh>>

\* printMessage(0, 0, "Done!"); delay(exitDelay)
waterPlant_done ==
  /\ pc = "wp_done"
  /\ delay(exitDelay)
  /\ pc' = "wp_ret"
  /\ UNCHANGED <<currentMenu, outputs, isAutoModeEnabled, autoTimerSetBy, waterInterval,
                 settings, gate, locals, gateFresh, stopRequest, waterSensorPin, buttons>>

\* waterPlant() has returned: autoTimer = millis()
autoWateringCheck_record ==
  /\ pc = "wp_ret"
  /\ sinceAutoTimer' = 0
  /\ autoTimerSetBy' = "autoWateringCheck"
  /\ pc' = "clock_btn"
  /\ UNCHANGED <<currentMenu, outputs, isAutoModeEnabled, waterInterval,
                 settings, gate, sinceLastReading, locals, gateFresh,
                 valveOpenFor, pumpOffFor, sinceAttempt, stopRequest, waterSensorPin, buttons>>

----------------------------------------------------------------------------
(* showClock() *)

\* passes of the showClock() loop until autoWateringCheck() finds the
\* interval elapsed, one pass taking delay(inputDebounceDelay)
passesUntilDue ==
  (IntervalMilli(waterInterval) - sinceAutoTimer + inputDebounceDelay - 1)
    \div inputDebounceDelay

idleChoices ==
  {IdlePasses} \cup
    (IF isAutoModeEnabled /\ ~autoWateringDue(0) THEN {passesUntilDue} ELSE {})

\* variant of showClock_idle: every pass writes autoTimer = millis()
showClock_idle_writesAutoTimer(k) ==
  /\ pc = "clock"
  /\ k >= 1
  /\ ~autoWateringDue((k - 1) * inputDebounceDelay)
  /\ showMessageCycleClock((k - 1) * inputDebounceDelay)
  /\ sinceAutoTimer' = 0
  /\ sinceAttempt' = attemptAfter(k * inputDebounceDelay)
  /\ sinceLastReading' = readingAfter(k * inputDebounceDelay)
  /\ valveOpenFor' = valveAfter(k * inputDebounceDelay)
  /\ pumpOffFor' = pumpOffAfter(k * inputDebounceDelay)
  /\ UNCHANGED <<pc, currentMenu, outputs, isAutoModeEnabled, autoTimerSetBy, waterInterval,
                 settings, gate, targetCups, waterTestDuration,
                 currentlyWatering, gateFresh, stopRequest, waterSensorPin, buttons>>

\* k passes of the loop in which no button is pressed and the interval has
\* not elapsed: showMessageCycleClock(); autoWateringCheck(); delay(25)
showClock_idle(k) ==
  /\ pc = "clock"
  /\ k >= 1
  /\ ~autoWateringDue((k - 1) * inputDebounceDelay)
  /\ showMessageCycleClock((k - 1) * inputDebounceDelay)
  /\ delay(k * inputDebounceDelay)
  /\ UNCHANGED <<pc, currentMenu, outputs, isAutoModeEnabled, autoTimerSetBy, waterInterval,
                 settings, gate, targetCups, waterTestDuration,
                 currentlyWatering, gateFresh, stopRequest, waterSensorPin, buttons>>

\* variant of showClock_buttons: button A leaves the screen also in auto mode
showClock_buttons_leavesInAutoMode(m, a, raw) ==
  /\ \/ pc = "clock" /\ ~autoWateringDue(0) /\ (m \/ a)
     \/ pc = "clock_btn"
  /\ LET leaves == a
         tRead == 16 * bootAnimationDelay
         afterRead == messageDisplayDuration
                        + (IF leaves THEN exitMessageTime + 100
                           ELSE (IF a THEN 500 + 2000 ELSE 0)
                                  + inputDebounceDelay)
         total == IF m THEN tRead + readSoilMoisture_time(tRead) + afterRead
                       ELSE afterRead - messageDisplayDuration
     IN /\ IF m THEN readSoilMoisture(tRead, raw, afterRead)
                ELSE /\ sinceLastReading' = readingAfter(total)
                     /\ UNCHANGED <<lastMoisture, lastRawMoistureValue, soilPower>>
        /\ valveOpenFor' = valveAfter(total)
        /\ pumpOffFor' = pumpOffAfter(total)
        /\ IF leaves
             THEN ReturnToLoop
             ELSE /\ pc' = "clock"
                  /\ IF pc = "clock"
                       THEN showMessageCycleClock(0)
                       ELSE UNCHANGED <<elaspedTime, remainingTime>>
                  /\ UNCHANGED <<currentMenu, targetCups, waterTestDuration,
                                 currentlyWatering>>
        /\ isAutoModeEnabled' = isAutoModeEnabled
        /\ sinceAutoTimer' = IF isAutoModeEnabled /\ ~(a /\ ~leaves)
                               THEN sinceAutoTimer + total ELSE 0
        /\ sinceAttempt' = IF isAutoModeEnabled /\ ~(a /\ ~leaves)
                             THEN attemptAfter(total) ELSE -1
  /\ UNCHANGED <<outputs, waterInterval, settings, waterDetectionPower,
                 waterDetectionValue, gateResult, moistureLevel, gateFresh,
                 stopRequest, autoTimerSetBy, waterSensorPin, buttons>>

\* a pass in which a button is pressed (showMessageCycleClock() and
\* autoWateringCheck() first, unless waterPlant() has just run in this
\* pass), or the rest of the pass after waterPlant(): button M (m) shows a fresh
\* moisture reading, button A (a) leaves the screen or, in auto mode,
\* disables auto mode
showClock_buttons(m, a, raw) ==
  /\ \/ pc = "clock" /\ ~autoWateringDue(0) /\ (m \/ a)
     \/ pc = "clock_btn"
  /\ LET leaves == a /\ ~isAutoModeEnabled
         tRead == 16 * bootAnimationDelay
         afterRead == messageDisplayDuration
                        + (IF leaves THEN exitMessageTime + 100
                           ELSE (IF a THEN 500 + 2000 ELSE 0)
                                  + inputDebounceDelay)
         total == IF m THEN tRead + readSoilMoisture_time(tRead) + afterRead
                       ELSE afterRead - messageDisplayDuration
     IN /\ IF m THEN readSoilMoisture(tRead, raw, afterRead)
                ELSE /\ sinceLastReading' = readingAfter(total)
                     /\ UNCHANGED <<lastMoisture, lastRawMoistureValue, soilPower>>
        /\ valveOpenFor' = valveAfter(total)
        /\ pumpOffFor' = pumpOffAfter(total)
        /\ IF leaves
             THEN ReturnToLoop
             ELSE /\ pc' = "clock"
                  /\ IF pc = "clock"
                       THEN showMessageCycleClock(0)
                       ELSE UNCHANGED <<elaspedTime, remainingTime>>
                  /\ UNCHANGED <<currentMenu, targetCups, waterTestDuration,
                                 currentlyWatering>>
        /\ isAutoModeEnabled' = (isAutoModeEnabled /\ ~a)
        /\ sinceAutoTimer' = IF isAutoModeEnabled /\ ~a
                               THEN sinceAutoTimer + total ELSE 0
        /\ sinceAttempt' = IF isAutoModeEnabled /\ ~a
                             THEN attemptAfter(total) ELSE -1
  /\ UNCHANGED <<outputs, waterInterval, settings, waterDetectionPower,
                 waterDetectionValue, gateResult, moistureLevel, gateFresh,
                 stopRequest, autoTimerSetBy, waterSensorPin, buttons>>

----------------------------------------------------------------------------
(* manualWatering() *)

\* variant of manualWatering_idle: while M stays held after a denial the
\* gate is asked again
manualWatering_idle_retry(k) ==
  /\ pc = "man_poll"
  /\ k >= 1
  /\ delay(k * (inputDebounceDelay + 50))
  /\ pc' = IF currentlyWatering /\ pumpPin = 0 THEN "man_gate1" ELSE pc
  /\ UNCHANGED <<currentMenu, outputs, isAutoModeEnabled, autoTimerSetBy,
                 waterInterval, settings, gate, locals, gateFresh, stopRequest, waterSensorPin, buttons>>

\* k passes of the inner loop in which M keeps its state and A is not
\* pressed: delay(inputDebounceDelay) ... delay(50)
manualWatering_idle(k) ==
  /\ pc = "man_poll"
  /\ k >= 1
  /\ delay(k * (inputDebounceDelay + 50))
  /\ UNCHANGED <<pc, currentMenu, outputs, isAutoModeEnabled, autoTimerSetBy, waterInterval,
                 settings, gate, locals, gateFresh, stopRequest, waterSensorPin, buttons>>

\* variant of manualWatering_poll: the valve is opened on the result of the
\* gate call at the entry of manualWatering()
manualWatering_poll_noGate(isMHeld) ==
  /\ pc = "man_poll"
  /\ isMHeld # currentlyWatering
  /\ delay(inputDebounceDelay)
  /\ currentlyWatering' = isMHeld
  /\ gateFresh' = FALSE
  /\ pc' = IF isMHeld THEN "man_open" ELSE "man_off"
  /\ UNCHANGED <<currentMenu, outputs, isAutoModeEnabled, autoTimerSetBy, waterInterval,
                 settings, gate, targetCups, waterTestDuration, elaspedTime,
                 remainingTime, stopRequest, waterSensorPin, buttons>>

\* delay(inputDebounceDelay); M has changed: currentlyWatering = isMHeld and
\* the gate is asked when M is now held
manualWatering_poll(isMHeld) ==
  /\ pc = "man_poll"
  /\ isMHeld # currentlyWatering
  /\ delay(inputDebounceDelay)
  /\ currentlyWatering' = isMHeld
  /\ gateFresh' = FALSE
  /\ pc' = IF isMHeld THEN "man_gate1" ELSE "man_off"
  /\ UNCHANGED <<currentMenu, outputs, isAutoModeEnabled, autoTimerSetBy, waterInterval,
                 settings, gate, targetCups, waterTestDuration, elaspedTime,
                 remainingTime, stopRequest, waterSensorPin, buttons>>

\* digitalWrite(pumpValvePin, HIGH)
manualWatering_openValve ==
  /\ pc = "man_open"
  /\ pumpValvePin' = HIGH
  /\ valveOpenFor' = 0
  /\ pc' = "man_on"
  /\ UNCHANGED <<currentMenu, pumpPin, isAutoModeEnabled, autoTimerSetBy, sinceAutoTimer,
                 waterInterval, settings, gate, sinceLastReading, locals,
                 gateFresh, pumpOffFor, sinceAttempt, stopRequest, waterSensorPin, buttons>>

\* analogWrite(pumpPin, pumpHighSetting)
manualWatering_startPump ==
  /\ pc = "man_on"
  /\ pumpPin' = pumpHighSetting
  /\ pc' = "man_exitchk"
  /\ delay(0)
  /\ UNCHANGED <<currentMenu, pumpValvePin, isAutoModeEnabled, autoTimerSetBy, waterInterval,
                 settings, gate, locals, gateFresh, stopRequest, waterSensorPin, buttons>>

\* else branch: analogWrite(pumpPin, 0)
manualWatering_stopPump ==
  /\ pc = "man_off"
  /\ pumpPin' = 0
  /\ pumpOffFor' = 0
  /\ pc' = "man_close"
  /\ UNCHANGED <<currentMenu, pumpValvePin, isAutoModeEnabled, autoTimerSetBy, sinceAutoTimer,
                 waterInterval, settings, gate, sinceLastReading, locals,
                 gateFresh, valveOpenFor, sinceAttempt, stopRequest, waterSensorPin, buttons>>

\* else branch: digitalWrite(pumpValvePin, LOW)
manualWatering_closeValve ==
  /\ pc = "man_close"
  /\ pumpValvePin' = LOW
  /\ pc' = "man_exitchk"
  /\ delay(0)
  /\ UNCHANGED <<currentMenu, pumpPin, isAutoModeEnabled, autoTimerSetBy, waterInterval,
                 settings, gate, locals, gateFresh, stopRequest, waterSensorPin, buttons>>

\* variant of manualWatering_afterExitTest: A leaves without stopping the pump
manualWatering_afterExitTest_noStop(a, d) ==
  /\ pc' = IF a THEN "man_exit" ELSE "man_poll"
  /\ delay(IF a THEN d ELSE d + 50)
  /\ UNCHANGED <<currentMenu, locals>>

\* what follows isButtonPressed(A), d ms from now: with A pressed the pump
\* is stopped first when currentlyWatering; without A the pass ends with
\* delay(50)
manualWatering_afterExitTest(a, d) ==
  /\ pc' = IF a THEN (IF currentlyWatering THEN "man_x_off" ELSE "man_exit")
                ELSE "man_poll"
  /\ delay(IF a THEN d ELSE d + 50)
  /\ UNCHANGED <<currentMenu, locals>>

\* the exit test of a pass in which M has changed
manualWatering_exitCheck(a) ==
  /\ pc = "man_exitchk"
  /\ manualWatering_afterExitTest(a, 0)
  /\ UNCHANGED <<outputs, isAutoModeEnabled, autoTimerSetBy, waterInterval, settings, gate,
                 gateFresh, stopRequest, waterSensorPin, buttons>>

\* a pass in which M keeps its state and A is pressed
manualWatering_pollExit ==
  /\ pc = "man_poll"
  /\ manualWatering_afterExitTest(TRUE, inputDebounceDelay)
  /\ UNCHANGED <<outputs, isAutoModeEnabled, autoTimerSetBy, waterInterval, settings, gate,
                 gateFresh, stopRequest, waterSensorPin, buttons>>

\* variant of manualWatering_exitStopPump: the valve is closed first
manualWatering_exitStopPump_valveFirst ==
  /\ pc = "man_x_off"
  /\ pumpValvePin' = LOW
  /\ pc' = "man_x_close"
  /\ delay(0)
  /\ UNCHANGED <<currentMenu, pumpPin, isAutoModeEnabled, autoTimerSetBy, waterInterval,
                 settings, gate, locals, gateFresh, stopRequest, waterSensorPin, buttons>>

\* exit while watering: analogWrite(pumpPin, 0)
manualWatering_exitStopPump ==
  /\ pc = "man_x_off"
  /\ pumpPin' = 0
  /\ pumpOffFor' = 0
  /\ pc' = "man_x_close"
  /\ UNCHANGED <<currentMenu, pumpValvePin, isAutoModeEnabled, autoTimerSetBy, sinceAutoTimer,
                 waterInterval, settings, gate, sinceLastReading, locals,
                 gateFresh, valveOpenFor, sinceAttempt, stopRequest, waterSensorPin, buttons>>

\* variant of manualWatering_exitCloseValve: the valve is not written
manualWatering_exitCloseValve_skipped ==
  /\ pc = "man_x_close"
  /\ pc' = "man_exit"
  /\ delay(0)
  /\ UNCHANGED <<currentMenu, outputs, isAutoModeEnabled, autoTimerSetBy, waterInterval,
                 settings, gate, locals, gateFresh, stopRequest, waterSensorPin, buttons>>

\* exit while watering: digitalWrite(pumpValvePin, LOW)
manualWatering_exitCloseValve ==
  /\ pc = "man_x_close"
  /\ pumpValvePin' = LOW
  /\ pc' = "man_exit"
  /\ delay(0)
  /\ UNCHANGED <<currentMenu, pumpPin, isAutoModeEnabled, autoTimerSetBy, waterInterval,
                 settings, gate, locals, gateFresh, stopRequest, waterSensorPin, buttons>>

\* printExitCurrentMenu(); return
manualWatering_exit ==
  /\ pc = "man_exit"
  /\ ReturnToLoop
  /\ delay(exitMessageTime + 100)
  /\ UNCHANGED <<outputs, isAutoModeEnabled, autoTimerSetBy, waterInterval, settings, gate,
                 gateFresh, stopRequest, waterSensorPin, buttons>>

----------------------------------------------------------------------------
(* autoWatering() *)

\* variant of durationForCups: the product is kept in an unsigned int
durationForCups_uint(halfCups, factor) ==
  ((halfCups * factor) \div 2) % Pow2(UIntBits)

\* variant of durationForCups: the volume is cut to whole cups
durationForCups_wholeCups(halfCups, factor) == (halfCups \div 2) * factor

\* (unsigned long)(targetCups * oneCupCalibrated), targetCups in half cups
durationForCups(halfCups, factor) == (halfCups * factor) \div 2

\* variant of autoWatering_entry: the calibration factor is not tested
autoWatering_entry_noCalibrationCheck ==
  /\ pc = "auto_entry"
  /\ delay(500)
  /\ pc' = "auto_value"
  /\ UNCHANGED <<currentMenu, outputs, isAutoModeEnabled, autoTimerSetBy, waterInterval,
                 settings, gate, locals, gateFresh, stopRequest, waterSensorPin, buttons>>

\* if (oneCupCalibrated <= 0) { delay(1500); waterCalibrationTest(); return; }
\* else delay(500) and the setup starts with targetCups = 1.0
autoWatering_entry ==
  /\ pc = "auto_entry"
  /\ IF oneCupCalibrated <= 0
       THEN delay(1500) /\ pc' = "cal_set1"
       ELSE delay(500) /\ pc' = "auto_value"
  /\ UNCHANGED <<currentMenu, outputs, isAutoModeEnabled, autoTimerSetBy, waterInterval,
                 settings, gate, locals, gateFresh, stopRequest, waterSensorPin, buttons>>

\* SET_VALUE, - or + pressed:
\* targetCups = constrain(targetCups + direction * stepp, 0.5, 10.0); delay(50)
autoWatering_adjustCups(direction) ==
  /\ pc = "auto_value"
  /\ LET new == constrain(targetCups + direction, 1, 20)
     IN /\ NearCups(new)
        /\ targetCups' = new
  /\ delay(50)
  /\ UNCHANGED <<pc, currentMenu, outputs, isAutoModeEnabled, autoTimerSetBy, waterInterval,
                 settings, gate, waterTestDuration, currentlyWatering,
                 elaspedTime, remainingTime, gateFresh, stopRequest, waterSensorPin, buttons>>

\* SET_VALUE, M pressed: waterDuration = targetCups * oneCupCalibrated
autoWatering_confirmCups ==
  /\ pc = "auto_value"
  /\ waterDuration' = durationForCups(targetCups, oneCupCalibrated)
  /\ pc' = "auto_freq"
  /\ delay(50)
  /\ UNCHANGED <<currentMenu, outputs, isAutoModeEnabled, autoTimerSetBy, waterInterval,
                 waterIntervalHour, oneCupCalibrated, gate, locals, gateFresh,
                 stopRequest, waterSensorPin, buttons>>

\* variant of nextIntervalHour: the sum is stored without constrain
nextIntervalHour_noConstrain(w, direction) ==
  (w + direction * waterIntervalDelta) % Pow2(UIntBits)

\* unsigned int newInterval = waterIntervalHour + (direction *
\* waterIntervalDelta); constrain(newInterval, waterIntervalDelta, 1440)
nextIntervalHour(w, direction) ==
  LET newInterval == (w + direction * waterIntervalDelta) % Pow2(UIntBits)
  IN constrain(newInterval, waterIntervalDelta, maxWaterIntervalHour)

\* SET_FREQUENCY, - or + pressed
autoWatering_adjustFrequency(direction) ==
  /\ pc = "auto_freq"
  /\ NearInterval(nextIntervalHour(waterIntervalHour, direction))
  /\ waterIntervalHour' = nextIntervalHour(waterIntervalHour, direction)
  /\ delay(100)
  /\ UNCHANGED <<pc, currentMenu, outputs, isAutoModeEnabled, autoTimerSetBy, waterInterval,
                 waterDuration, oneCupCalibrated, gate, locals, gateFresh,
                 stopRequest, waterSensorPin, buttons>>

\* variant of autoWatering_cancel: the interval set so far is stored
autoWatering_cancel_storesInterval ==
  /\ pc \in {"auto_value", "auto_freq"}
  /\ waterInterval' = waterIntervalHour
  /\ ReturnToLoop
  /\ delay(exitMessageTime + 100)
  /\ UNCHANGED <<outputs, isAutoModeEnabled, autoTimerSetBy, settings, gate,
                 gateFresh, stopRequest, waterSensorPin, buttons>>

\* A pressed in either step: printExitCurrentMenu(); return
autoWatering_cancel ==
  /\ pc \in {"auto_value", "auto_freq"}
  /\ ReturnToLoop
  /\ delay(exitMessageTime + 100)
  /\ UNCHANGED <<outputs, isAutoModeEnabled, autoTimerSetBy, waterInterval, settings, gate,
                 gateFresh, stopRequest, waterSensorPin, buttons>>

\* variant of autoWatering_enable: autoTimer keeps the 0 of main.cpp:648,
\* with the firmware up for 2^16 ms
autoWatering_enable_timerZero ==
  /\ pc = "auto_freq"
  /\ waterInterval' = waterIntervalHour
  /\ isAutoModeEnabled' = TRUE
  /\ sinceAutoTimer' = Pow2(UIntBits)
  /\ autoTimerSetBy' = "autoWatering"
  /\ sinceAttempt' = -1
  /\ sinceLastReading' = readingAfter(100 + 500 + 2000)
  /\ valveOpenFor' = valveAfter(100 + 500 + 2000)
  /\ pumpOffFor' = pumpOffAfter(100 + 500 + 2000)
  /\ pc' = "clock"
  /\ UNCHANGED <<currentMenu, outputs, settings, gate, locals, gateFresh,
                 stopRequest, waterSensorPin, buttons>>

\* SET_FREQUENCY, M pressed: waterInterval = waterIntervalHour; delay(100);
\* isAutoModeEnabled = true; delay(500); delay(2000); autoTimer = millis();
\* showClock()
autoWatering_enable ==
  /\ pc = "auto_freq"
  /\ waterInterval' = waterIntervalHour
  /\ isAutoModeEnabled' = TRUE
  /\ sinceAutoTimer' = 0
  /\ autoTimerSetBy' = "autoWatering"
  /\ sinceAttempt' = -1
  /\ sinceLastReading' = readingAfter(100 + 500 + 2000)
  /\ valveOpenFor' = valveAfter(100 + 500 + 2000)
  /\ pumpOffFor' = pumpOffAfter(100 + 500 + 2000)
  /\ pc' = "clock"
  /\ UNCHANGED <<currentMenu, outputs, settings, gate, locals, gateFresh,
                 stopRequest, waterSensorPin, buttons>>

----------------------------------------------------------------------------
(* settingsMenu() *)

\* option 2 confirmed with M: waterCalibrationTest()
settingsMenu_calibrate ==
  /\ pc = "settings"
  /\ delay(inputDebounceDelay)
  /\ pc' = "cal_set1"
  /\ UNCHANGED <<currentMenu, outputs, isAutoModeEnabled, autoTimerSetBy, waterInterval,
                 settings, gate, locals, gateFresh, stopRequest, waterSensorPin, buttons>>

\* option 1 (setDateTime) or 3 (disableMessages) confirmed with M, or A
\* pressed: the menu returns after the messages of the chosen path
settingsMenu_other(shown) ==
  /\ pc = "settings"
  /\ ReturnToLoop
  /\ delay(inputDebounceDelay + shown + 100)
  /\ UNCHANGED <<outputs, isAutoModeEnabled, autoTimerSetBy, waterInterval, settings, gate,
                 gateFresh, stopRequest, waterSensorPin, buttons>>

----------------------------------------------------------------------------
(* waterCalibrationTest() *)

\* - or + pressed in SET_DURATION: waterTestDuration =
\* constrain(waterTestDuration + direction * 1000, 1000, 60000); delay(200)
\* (waterTestDuration >= 1000, so the unsigned long sum does not wrap)
waterCalibrationTest_adjust(direction) ==
  /\ pc \in {"cal_set1", "cal_set2"}
  /\ LET new == constrain(waterTestDuration + direction * 1000, 1000, 60000)
     IN /\ NearTestDuration(new)
        /\ waterTestDuration' = new
  /\ delay(200)
  /\ UNCHANGED <<pc, currentMenu, outputs, isAutoModeEnabled, autoTimerSetBy, waterInterval,
                 settings, gate, targetCups, currentlyWatering, elaspedTime,
                 remainingTime, gateFresh, stopRequest, waterSensorPin, buttons>>

\* M pressed in SET_DURATION (the first loop shows the value for 4 s);
\* delay(200); "Start Cal Test?"; delay(100)
waterCalibrationTest_confirm ==
  /\ pc \in {"cal_set1", "cal_set2"}
  /\ delay((IF pc = "cal_set1" THEN 4000 ELSE 0) + 200 + 100)
  /\ pc' = "cal_start"
  /\ UNCHANGED <<currentMenu, outputs, isAutoModeEnabled, autoTimerSetBy, waterInterval,
                 settings, gate, locals, gateFresh, stopRequest, waterSensorPin, buttons>>

\* A pressed in SET_DURATION, or - pressed at "Start Cal Test?" or at
\* "Retry test?": printExitCurrentMenu(); return
waterCalibrationTest_exit ==
  /\ pc \in {"cal_set1", "cal_set2", "cal_start", "cal_retry"}
  /\ ReturnToLoop
  /\ delay(exitMessageTime + 100)
  /\ UNCHANGED <<outputs, isAutoModeEnabled, autoTimerSetBy, waterInterval, settings, gate,
                 gateFresh, stopRequest, waterSensorPin, buttons>>

\* + pressed at "Start Cal Test?": the gate is asked
waterCalibrationTest_start ==
  /\ pc = "cal_start"
  /\ pc' = "cal_gate"
  /\ gateFresh' = FALSE
  /\ delay(0)
  /\ UNCHANGED <<currentMenu, outputs, isAutoModeEnabled, autoTimerSetBy, waterInterval,
                 settings, gate, locals, stopRequest, waterSensorPin, buttons>>

\* digitalWrite(pumpValvePin, HIGH)
waterCalibrationTest_openValve ==
  /\ pc = "cal_open"
  /\ pumpValvePin' = HIGH
  /\ valveOpenFor' = 0
  /\ pc' = "cal_settle"
  /\ UNCHANGED <<currentMenu, pumpPin, isAutoModeEnabled, autoTimerSetBy, sinceAutoTimer,
                 waterInterval, settings, gate, sinceLastReading, locals,
                 gateFresh, pumpOffFor, sinceAttempt, stopRequest, waterSensorPin, buttons>>

\* delay(pumpValveTiming); analogWrite(pumpPin, pumpHighSetting)
waterCalibrationTest_startPump ==
  /\ pc = "cal_settle"
  /\ delay(pumpValveTiming)
  /\ pumpPin' = pumpHighSetting
  /\ pc' = "cal_dispense"
  /\ UNCHANGED <<currentMenu, pumpValvePin, isAutoModeEnabled, autoTimerSetBy, waterInterval,
                 settings, gate, locals, gateFresh, stopRequest, waterSensorPin, buttons>>

\* delay(waterTestDuration); analogWrite(pumpPin, 0)
waterCalibrationTest_stopPump ==
  /\ pc = "cal_dispense"
  /\ sinceAutoTimer' = autoTimerAfter(waterTestDuration)
  /\ sinceAttempt' = attemptAfter(waterTestDuration)
  /\ sinceLastReading' = readingAfter(waterTestDuration)
  /\ valveOpenFor' = valveAfter(waterTestDuration)
  /\ pumpPin' = 0
  /\ pumpOffFor' = 0
  /\ pc' = "cal_closing"
  /\ UNCHANGED <<currentMenu, pumpValvePin, isAutoModeEnabled, autoTimerSetBy, waterInterval,
                 settings, gate, locals, gateFresh, stopRequest, waterSensorPin, buttons>>

\* delay(pumpValveTiming); digitalWrite(pumpValvePin, LOW)
waterCalibrationTest_closeValve ==
  /\ pc = "cal_closing"
  /\ delay(pumpValveTiming)
  /\ pumpValvePin' = LOW
  /\ pc' = "cal_done"
  /\ stopRequest' = FALSE
  /\ UNCHANGED <<waterSensorPin, buttons>>
  /\ UNCHANGED <<currentMenu, pumpPin, isAutoModeEnabled, autoTimerSetBy, waterInterval,
                 settings, gate, locals, gateFresh>>

\* printMessage(0, 0, "Done!"); delay(exitDelay); "1 cup output?"
waterCalibrationTest_done ==
  /\ pc = "cal_done"
  /\ delay(exitDelay)
  /\ pc' = "cal_ask"
  /\ UNCHANGED <<currentMenu, outputs, isAutoModeEnabled, autoTimerSetBy, waterInterval,
                 settings, gate, locals, gateFresh, stopRequest, waterSensorPin, buttons>>

\* - pressed at "1 cup output?": "Retry test?"
waterCalibrationTest_answerNo ==
  /\ pc = "cal_ask"
  /\ pc' = "cal_retry"
  /\ delay(0)
  /\ UNCHANGED <<currentMenu, outputs, isAutoModeEnabled, autoTimerSetBy, waterInterval,
                 settings, gate, locals, gateFresh, stopRequest, waterSensorPin, buttons>>

\* + pressed at "Retry test?": step = SET_DURATION
waterCalibrationTest_retry ==
  /\ pc = "cal_retry"
  /\ pc' = "cal_set2"
  /\ delay(0)
  /\ UNCHANGED <<currentMenu, outputs, isAutoModeEnabled, autoTimerSetBy, waterInterval,
                 settings, gate, locals, gateFresh, stopRequest, waterSensorPin, buttons>>

\* variant of waterCalibrationTest_save: the start value of the test duration
\* is stored
waterCalibrationTest_save_startValue ==
  /\ pc = "cal_ask"
  /\ oneCupCalibrated' = 30000
  /\ ReturnToLoop
  /\ delay(500 + 2000 + 4000 + 100)
  /\ UNCHANGED <<outputs, isAutoModeEnabled, autoTimerSetBy, waterInterval, waterIntervalHour,
                 waterDuration, gate, gateFresh, stopRequest, waterSensorPin, buttons>>

\* + pressed at "1 cup output?": oneCupCalibrated = waterTestDuration;
\* delay(500); delay(2000); delay(4000); return
waterCalibrationTest_save ==
  /\ pc = "cal_ask"
  /\ oneCupCalibrated' = waterTestDuration
  /\ ReturnToLoop
  /\ delay(500 + 2000 + 4000 + 100)
  /\ UNCHANGED <<outputs, isAutoModeEnabled, autoTimerSetBy, waterInterval, waterIntervalHour,
                 waterDuration, gate, gateFresh, stopRequest, waterSensorPin, buttons>>

----------------------------------------------------------------------------
(* Stop requests *)

\* the valve-opening and dispensing phases of the timed dispenses
TimedRunPcs == {"wp_settle", "wp_dispense", "cal_settle", "cal_dispense"}

\* someone asks for the running timed dispense to be stopped; the firmware
\* has no code that reads the request
requestStop ==
  /\ pc \in TimedRunPcs
  /\ ~stopRequest
  /\ stopRequest' = TRUE
  /\ UNCHANGED <<waterSensorPin, buttons>>
  /\ delay(0)
  /\ UNCHANGED <<pc, currentMenu, outputs, isAutoModeEnabled, autoTimerSetBy, waterInterval,
                 settings, gate, locals, gateFresh>>

----------------------------------------------------------------------------
(* The firmware *)

Next ==
  \/ \E level \in {LOW, HIGH} : loop_waterLevel(level)
  \/ loop_lowWater
  \/ \E i \in 0..3 : checkButtons(i)
  \/ handleMenu
  \/ \E wd \in WaterDetectionValues, raw \in RawMoistureValues :
       isPlantOkayToWater(wd, raw)
  \/ autoWateringCheck
  \/ waterPlant_openValve
  \/ waterPlant_startPump
  \/ waterPlant_stopPump
  \/ waterPlant_closeValve
  \/ waterPlant_done
  \/ autoWateringCheck_record
  \/ \E k \in idleChoices : showClock_idle(k)
  \/ \E m \in BOOLEAN, a \in BOOLEAN, raw \in RawMoistureValues :
       showClock_buttons(m, a, raw)
  \/ manualWatering_idle(IdlePasses)
  \/ \E isMHeld \in BOOLEAN : manualWatering_poll(isMHeld)
  \/ manualWatering_openValve
  \/ manualWatering_startPump
  \/ manualWatering_stopPump
  \/ manualWatering_closeValve
  \/ \E a \in BOOLEAN : manualWatering_exitCheck(a)
  \/ manualWatering_pollExit
  \/ manualWatering_exitStopPump
  \/ manualWatering_exitCloseValve
  \/ manualWatering_exit
  \/ autoWatering_entry
  \/ \E direction \in {-1, 1} : autoWatering_adjustCups(direction)
  \/ autoWatering_confirmCups
  \/ \E direction \in {-1, 1} : autoWatering_adjustFrequency(direction)
  \/ autoWatering_cancel
  \/ autoWatering_enable
  \/ settingsMenu_calibrate
  \/ \E shown \in {exitDelay, exitMessageTime} : settingsMenu_other(shown)
  \/ \E direction \in {-1, 1} : waterCalibrationTest_adjust(direction)
  \/ waterCalibrationTest_confirm
  \/ waterCalibrationTest_exit
  \/ waterCalibrationTest_start
  \/ waterCalibrationTest_openValve
  \/ waterCalibrationTest_startPump
  \/ waterCalibrationTest_stopPump
  \/ waterCalibrationTest_closeValve
  \/ waterCalibrationTest_done
  \/ waterCalibrationTest_answerNo
  \/ waterCalibrationTest_retry
  \/ waterCalibrationTest_save
  \/ requestStop

Spec == Init /\ [][Next]_vars

\* the statements of a timed dispense are executed one after the other and
\* each delay() between them returns
SpecFair ==
  /\ Spec
  /\ WF_vars(waterPlant_openValve)
  /\ WF_vars(waterPlant_startPump)
  /\ WF_vars(waterPlant_stopPump)
  /\ WF_vars(waterPlant_closeValve)
  /\ WF_vars(waterCalibrationTest_openValve)
  /\ WF_vars(waterCalibrationTest_startPump)
  /\ WF_vars(waterCalibrationTest_stopPump)
  /\ WF_vars(waterCalibrationTest_closeValve)

\* the loop of showClock() keeps running: every delay() of a pass returns
\* and the next pass calls autoWateringCheck() again
SpecFairClock ==
  /\ Spec
  /\ WF_vars(\E k \in idleChoices : showClock_idle(k))
  /\ WF_vars(autoWateringCheck)

----------------------------------------------------------------------------
(* The firmware with a reservoir whose level changes at any time, also     *)
(* while a menu function runs                                              *)

Next_Reservoir ==
  \/ Next
  \/ \E level \in {LOW, HIGH} : waterLevelChange(level)

SpecReservoir == Init /\ [][Next_Reservoir]_vars

----------------------------------------------------------------------------
(* The calibration flow and the auto mode setup over all the values their  *)
(* buttons can set: the firmware in waterCalibrationTest() with any test   *)
(* duration near the start value or an end of its range, or in the         *)
(* SET_VALUE step of autoWatering() with any stored factor and any target  *)
(* volume; from there the flow, the setup and the clock screen with its    *)
(* automatic dispenses run until the function returns to loop(); on the    *)
(* clock screen only button A is pressed                                   *)

Init_Setup ==
  /\ \/ /\ pc = "cal_set1"
        /\ currentMenu = 2
        /\ oneCupCalibrated = 0
        /\ waterTestDuration \in {x \in TestDurations : NearTestDuration(x)}
        /\ targetCups = 2
     \/ /\ pc = "auto_value"
        /\ currentMenu = 4
        /\ oneCupCalibrated \in TestDurations
        /\ waterTestDuration = 30000
        /\ targetCups \in CupValues
  /\ pumpPin = 0
  /\ pumpValvePin = LOW
  /\ waterDetectionPower = LOW
  /\ isAutoModeEnabled = FALSE
  /\ sinceAutoTimer = 0
  /\ waterInterval = 0
  /\ waterIntervalHour = 60
  /\ waterDuration = 20000
  /\ moistureLevel = 0
  /\ sinceLastReading = soilCacheWindow
  /\ lastRawMoistureValue \in RawMoistureValues
  /\ lastMoisture = calculateMoisture(lastRawMoistureValue)
  /\ soilPower = LOW
  /\ waterDetectionValue = 0
  /\ currentlyWatering = FALSE
  /\ gateResult = "none"
  /\ gateFresh = FALSE
  /\ valveOpenFor = pumpValveTiming
  /\ pumpOffFor = pumpValveTiming
  /\ sinceAttempt = -1
  /\ stopRequest = FALSE
  /\ autoTimerSetBy = "init"
  /\ elaspedTime = -1
  /\ remainingTime = 0
  /\ waterSensorPin \in {LOW, HIGH}
  /\ buttonsReleased

Next_Setup ==
  \/ \E direction \in {-1, 1} : waterCalibrationTest_adjust(direction)
  \/ waterCalibrationTest_confirm
  \/ waterCalibrationTest_exit
  \/ waterCalibrationTest_start
  \/ waterCalibrationTest_openValve
  \/ waterCalibrationTest_startPump
  \/ waterCalibrationTest_stopPump
  \/ waterCalibrationTest_closeValve
  \/ waterCalibrationTest_done
  \/ waterCalibrationTest_answerNo
  \/ waterCalibrationTest_retry
  \/ waterCalibrationTest_save
  \/ \E direction \in {-1, 1} : autoWatering_adjustCups(direction)
  \/ autoWatering_confirmCups
  \/ autoWatering_cancel
  \/ autoWatering_enable
  \/ \E k \in idleChoices : showClock_idle(k)
  \/ \E raw \in RawMoistureValues : showClock_buttons(FALSE, TRUE, raw)
  \/ autoWateringCheck
  \/ \E wd \in WaterDetectionValues, raw \in RawMoistureValues :
       isPlantOkayToWater(wd, raw)
  \/ waterPlant_openValve
  \/ waterPlant_startPump
  \/ waterPlant_stopPump
  \/ waterPlant_closeValve
  \/ waterPlant_done
  \/ autoWateringCheck_record

SpecSetup == Init_Setup /\ [][Next_Setup]_vars

----------------------------------------------------------------------------
(* The schedule over all the intervals the setup can store: the firmware   *)
(* in the SET_FREQUENCY step of autoWatering(), entered again after an     *)
(* earlier setup has stored any interval from 60 to 1440 and automatic     *)
(* mode was disabled, one cup at a factor of 30000 ms; from there the      *)
(* setup, the clock screen and its automatic attempts run until            *)
(* showClock() returns to loop(); on the clock screen only button A is     *)
(* pressed                                                                 *)

Init_Frequency ==
  /\ pc = "auto_freq"
  /\ currentMenu = 4
  /\ pumpPin = 0
  /\ pumpValvePin = LOW
  /\ waterDetectionPower = LOW
  /\ isAutoModeEnabled = FALSE
  /\ sinceAutoTimer = 0
  /\ waterIntervalHour \in IntervalValues
  /\ waterInterval = waterIntervalHour
  /\ oneCupCalibrated = 30000
  /\ waterDuration = durationForCups(2, oneCupCalibrated)
  /\ moistureLevel = 0
  /\ sinceLastReading = soilCacheWindow
  /\ lastRawMoistureValue \in RawMoistureValues
  /\ lastMoisture = calculateMoisture(lastRawMoistureValue)
  /\ soilPower = LOW
  /\ waterDetectionValue = 0
  /\ targetCups = 2
  /\ waterTestDuration = 30000
  /\ currentlyWatering = FALSE
  /\ gateResult = "none"
  /\ gateFresh = FALSE
  /\ valveOpenFor = pumpValveTiming
  /\ pumpOffFor = pumpValveTiming
  /\ sinceAttempt = -1
  /\ stopRequest = FALSE
  /\ autoTimerSetBy = "autoWatering"
  /\ elaspedTime = -1
  /\ remainingTime = 0
  /\ waterSensorPin = HIGH
  /\ buttonsReleased

Next_Frequency ==
  \/ \E direction \in {-1, 1} : autoWatering_adjustFrequency(direction)
  \/ autoWatering_cancel
  \/ autoWatering_enable
  \/ \E k \in idleChoices : showClock_idle(k)
  \/ \E raw \in RawMoistureValues : showClock_buttons(FALSE, TRUE, raw)
  \/ autoWateringCheck
  \/ \E wd \in WaterDetectionValues, raw \in RawMoistureValues :
       isPlantOkayToWater(wd, raw)
  \/ waterPlant_openValve
  \/ waterPlant_startPump
  \/ waterPlant_stopPump
  \/ waterPlant_closeValve
  \/ waterPlant_done
  \/ autoWateringCheck_record

SpecFrequency == Init_Frequency /\ [][Next_Frequency]_vars

----------------------------------------------------------------------------
(* isButtonPressed() in the SET_FREQUENCY step of autoWatering(): the loop *)
(* polls the four buttons in the order -, +, M, A while the user presses   *)
(* and releases them, one button at a time.  The other specifications take *)
(* the press events of their loops as inputs and leave the state of        *)
(* isButtonPressed() alone.                                                *)

\* variant of isButtonPressed: the time since the last change is not tested
isButtonPressed_noDebounce(last, since, level) ==
  IF level # last
    THEN [returns |-> (level = LOW), lastButtonState |-> level,
          sinceButtonChange |-> 0]
    ELSE [returns |-> FALSE, lastButtonState |-> last,
          sinceButtonChange |-> since]

\* isButtonPressed(pin) with lastButtonState = last, millis() -
\* lastTimeButtonStateChanged = since and digitalRead(pin) = level: what it
\* returns and what it leaves in the two globals
isButtonPressed(last, since, level) ==
  IF since >= debounceDuration /\ level # last
    THEN [returns |-> (level = LOW), lastButtonState |-> level,
          sinceButtonChange |-> 0]
    ELSE [returns |-> FALSE, lastButtonState |-> last,
          sinceButtonChange |-> since]

\* the user presses button p down while no button is held
pressButton(p) ==
  /\ \A q \in ButtonIndexes : buttonLevel[q] = HIGH
  /\ buttonLevel' = [buttonLevel EXCEPT ![p] = LOW]
  /\ heldEvents' = [heldEvents EXCEPT ![p] = 0]
  /\ pressEvent' = -1
  /\ delay(0)
  /\ UNCHANGED <<pc, currentMenu, outputs, isAutoModeEnabled, autoTimerSetBy,
                 waterInterval, settings, gate, locals, gateFresh, stopRequest,
                 waterSensorPin, lastButtonState, sinceButtonChange, sincePress>>

\* the user releases button p
releaseButton(p) ==
  /\ buttonLevel[p] = LOW
  /\ buttonLevel' = [buttonLevel EXCEPT ![p] = HIGH]
  /\ pressEvent' = -1
  /\ delay(0)
  /\ UNCHANGED <<pc, currentMenu, outputs, isAutoModeEnabled, autoTimerSetBy,
                 waterInterval, settings, gate, locals, gateFresh, stopRequest,
                 waterSensorPin, lastButtonState, sinceButtonChange, heldEvents,
                 sincePress>>

\* one pass of the inner loop of SET_FREQUENCY: isButtonPressed() for - and
\* +, with a direction the interval is adjusted and the pass ends with
\* delay(100); else isButtonPressed() for M, which enables auto mode; else
\* for A, which leaves; a pass in which no call returns true takes PassTime
autoWatering_frequencyPass ==
  /\ pc = "auto_freq"
  /\ LET c0 == isButtonPressed(lastButtonState, sinceButtonChange, buttonLevel[0])
         c1 == isButtonPressed(c0.lastButtonState, c0.sinceButtonChange,
                               buttonLevel[1])
         direction == IF c1.returns THEN 1 ELSE IF c0.returns THEN -1 ELSE 0
         c2 == isButtonPressed(c1.lastButtonState, c1.sinceButtonChange,
                               buttonLevel[2])
         c3 == isButtonPressed(c2.lastButtonState, c2.sinceButtonChange,
                               buttonLevel[3])
         last == IF direction # 0 THEN c1 ELSE IF c2.returns THEN c2 ELSE c3
         event == IF c1.returns THEN 1
                  ELSE IF c0.returns THEN 0
                  ELSE IF c2.returns THEN 2
                  ELSE IF c3.returns THEN 3 ELSE -1
         took == IF direction # 0 THEN 100
                 ELSE IF c2.returns THEN 100 + 500 + 2000
                 ELSE IF c3.returns THEN exitMessageTime + 100 ELSE PassTime
     IN /\ lastButtonState' = last.lastButtonState
        /\ sinceButtonChange' = Min(last.sinceButtonChange + took, debounceDuration)
        /\ pressEvent' = event
        /\ heldEvents' = IF event = -1 THEN heldEvents
                         ELSE [heldEvents EXCEPT ![event] = Min(@ + 1, 2)]
        /\ sincePress' = IF event = -1
                           THEN Min(sincePress + took, debounceDuration)
                           ELSE Min(took, debounceDuration)
        /\ UNCHANGED <<buttonLevel, outputs, oneCupCalibrated, waterDuration,
                       gate, gateFresh, stopRequest, waterSensorPin>>
        /\ IF direction # 0
             THEN /\ NearInterval(nextIntervalHour(waterIntervalHour, direction))
                  /\ waterIntervalHour' = nextIntervalHour(waterIntervalHour, direction)
                  /\ delay(100)
                  /\ UNCHANGED <<pc, currentMenu, isAutoModeEnabled, autoTimerSetBy,
                                 waterInterval, locals>>
             ELSE IF c2.returns
             THEN /\ waterInterval' = waterIntervalHour
                  /\ isAutoModeEnabled' = TRUE
                  /\ sinceAutoTimer' = 0
                  /\ autoTimerSetBy' = "autoWatering"
                  /\ sinceAttempt' = -1
                  /\ sinceLastReading' = readingAfter(took)
                  /\ valveOpenFor' = valveAfter(took)
                  /\ pumpOffFor' = pumpOffAfter(took)
                  /\ pc' = "clock"
                  /\ UNCHANGED <<currentMenu, waterIntervalHour, locals>>
             ELSE IF c3.returns
             THEN /\ ReturnToLoop
                  /\ delay(took)
                  /\ UNCHANGED <<isAutoModeEnabled, autoTimerSetBy, waterInterval,
                                 waterIntervalHour>>
             ELSE /\ delay(took)
                  /\ UNCHANGED <<pc, currentMenu, isAutoModeEnabled, autoTimerSetBy,
                                 waterInterval, waterIntervalHour, locals>>

Init_Buttons ==
  /\ Init_Frequency
  /\ waterIntervalHour = waterIntervalDelta

Next_Buttons ==
  \/ \E p \in ButtonIndexes : pressButton(p)
  \/ \E p \in ButtonIndexes : releaseButton(p)
  \/ autoWatering_frequencyPass

SpecButtons == Init_Buttons /\ [][Next_Buttons]_vars

----------------------------------------------------------------------------
(* The moisture reading over all the values the converter can deliver: the *)
(* first reading of setup() and every later reading of the clock screen    *)
(* (button M) is any value from 0 to AdcMax                                *)

AdcValues == 0..AdcMax

Init_Moisture ==
  /\ pc = "loop"
  /\ currentMenu = 0
  /\ pumpPin = 0
  /\ pumpValvePin = LOW
  /\ waterDetectionPower = LOW
  /\ isAutoModeEnabled = FALSE
  /\ sinceAutoTimer = 0
  /\ waterInterval = 0
  /\ waterIntervalHour = 60
  /\ waterDuration = 20000
  /\ oneCupCalibrated = 0
  /\ moistureLevel = 0
  /\ sinceLastReading = 10 + 14 * bootAnimationDelay
  /\ lastRawMoistureValue \in AdcValues
  /\ lastMoisture = calculateMoisture(lastRawMoistureValue)
  /\ soilPower = LOW
  /\ waterDetectionValue = 0
  /\ targetCups = 2
  /\ waterTestDuration = 30000
  /\ currentlyWatering = FALSE
  /\ gateResult = "none"
  /\ gateFresh = FALSE
  /\ valveOpenFor = pumpValveTiming
  /\ pumpOffFor = pumpValveTiming
  /\ sinceAttempt = -1
  /\ stopRequest = FALSE
  /\ autoTimerSetBy = "init"
  /\ elaspedTime = -1
  /\ remainingTime = 0
  /\ waterSensorPin \in {LOW, HIGH}
  /\ buttonsReleased

Next_Moisture ==
  \/ checkButtons(0)
  \/ handleMenu
  \/ showClock_idle(IdlePasses)
  \/ \E raw \in AdcValues : showClock_buttons(TRUE, FALSE, raw)
  \/ showClock_buttons(FALSE, TRUE, 0)

SpecMoisture == Init_Moisture /\ [][Next_Moisture]_vars

----------------------------------------------------------------------------
(* Sequencer of the design (PumpController, pump_control.h): emergencyStop() *)
(* de-energizes the pump at once and puts the sequence into its             *)
(* valve-closing phase                                                      *)

emergencyStop ==
  /\ pumpPin' = 0
  /\ pumpValvePin' = pumpValvePin
  /\ pc' \in {"wp_closing", "cal_closing"}

----------------------------------------------------------------------------
(* Properties *)

CalibrationPcs == {"cal_set1", "cal_set2", "cal_start", "cal_gate", "cal_open",
                   "cal_settle", "cal_dispense", "cal_closing", "cal_done",
                   "cal_ask", "cal_retry"}

\* C1: in every reachable state the pump output is energized only while the
\* valve output is HIGH; as the valve and the pump are written in separate
\* steps, the valve is opened before the pump is energized and the pump is
\* de-energized before the valve is closed.
C1_PumpOnlyWhileValveOpen == pumpPin > 0 => pumpValvePin = HIGH

\* C1 witness: the pump runs in an automatic dispense
C1_Witness == pumpPin > 0 /\ pumpValvePin = HIGH /\ pc = "wp_dispense"

\* C2: in every dispense path the pump is energized only when the valve has
\* been open for pumpValveTiming, and the valve is closed only when the pump
\* has been off for pumpValveTiming.
C2_SettleDelays ==
  [][ /\ (pumpPin = 0 /\ pumpPin' > 0) => valveOpenFor' >= pumpValveTiming
      /\ (pumpValvePin = HIGH /\ pumpValvePin' = LOW)
           => pumpOffFor' >= pumpValveTiming ]_vars

\* C3: every step that energizes the pump follows a call of
\* isPlantOkayToWater() that returned true within the same attempt.
C3_GateBeforePump ==
  [][ (pumpPin = 0 /\ pumpPin' > 0) => (gateFresh /\ gateResult = "Allowed") ]_vars

\* C3 witness: the pump runs in manual mode after the gate call of the hold
C3_Witness == pumpPin > 0 /\ gateFresh /\ pc = "man_exitchk" /\ currentlyWatering

\* C4: a moisture percentage of 70 or more is denied as soil saturated,
\* whatever the water detection reading is.
C4_SaturatedDenied ==
  (gateResult # "none" /\ moistureLevel >= saturationThreshold)
    => gateResult = "SoilSaturated"

\* C4 witness: 75 % moisture with water detected is denied as soil saturated
C4_Witness ==
  /\ gateResult = "SoilSaturated"
  /\ moistureLevel = 75
  /\ waterDetectionValue > waterDetectThreshold

\* C5: with a moisture percentage below 70 the gate denies every reading
\* above waterDetectThreshold and allows every reading at or below it; the
\* gate allows exactly when moisture < 70 and reading <= 350.
C5_AllowedExactly ==
  gateResult # "none" =>
    /\ gateResult = "Allowed" <=>
         (moistureLevel < saturationThreshold
            /\ waterDetectionValue <= waterDetectThreshold)
    /\ (moistureLevel < saturationThreshold
          /\ waterDetectionValue > waterDetectThreshold)
         => gateResult = "WaterAlreadyPresent"

\* C5 witness: 69 % moisture and a reading at the threshold are allowed
C5_Witness ==
  /\ gateResult = "Allowed"
  /\ moistureLevel = 69
  /\ waterDetectionValue = waterDetectThreshold

\* C6: after any call of isPlantOkayToWater() has returned,
\* waterDetectionPower is LOW.
C6_PowerOffAfterGate == gateResult # "none" => waterDetectionPower = LOW

\* C7: a stop asked for in the valve-opening or dispensing phase of a timed
\* dispense de-energizes the pump at once and the sequence goes on with its
\* valve-closing phase.
C7_EmergencyStop == [][ (stopRequest /\ pc \in TimedRunPcs) => emergencyStop ]_vars

\* C8: automatic mode is enabled only with a calibration factor, and
\* autoWatering() entered without one runs the calibration flow and returns
\* to the main loop without setting waterDuration or enabling the schedule.
C8_AutoNeedsCalibration ==
  /\ [](isAutoModeEnabled => oneCupCalibrated > 0)
  /\ [][ /\ (pc = "auto_entry" /\ oneCupCalibrated = 0) => pc' = "cal_set1"
         /\ (pc \in CalibrationPcs \cup {"auto_entry"} /\ oneCupCalibrated = 0)
              => /\ pc' \in CalibrationPcs \cup {"loop"}
                 /\ UNCHANGED <<waterDuration, isAutoModeEnabled,
                                waterInterval, sinceAutoTimer>> ]_vars

\* C8 witness: automatic mode is enabled
C8_Witness == isAutoModeEnabled /\ oneCupCalibrated > 0 /\ pc = "clock"

C11_SavedOnlyAfterDispense ==
  [][ oneCupCalibrated' # oneCupCalibrated
        => (pc = "cal_ask" /\ gateFresh /\ gateResult = "Allowed") ]_vars

\* C12: confirming at "1 cup output?" sets oneCupCalibrated to the test
\* duration of the run, which no step between the gate call and the
\* question changes; every other step of the calibration flow (answering
\* no, retrying, leaving with A or -) leaves oneCupCalibrated unchanged.
C12_SaveStoresTestDuration ==
  [][ /\ (pc = "cal_ask" /\ pc' = "loop") => oneCupCalibrated' = waterTestDuration
      /\ (pc \in CalibrationPcs /\ ~(pc = "cal_ask" /\ pc' = "loop"))
           => UNCHANGED oneCupCalibrated
      /\ (pc \in CalibrationPcs \ {"cal_set1", "cal_set2"} /\ pc' # "loop")
           => UNCHANGED waterTestDuration ]_vars

\* C12 witness: a test duration other than the start value has been stored
C12_Witness == oneCupCalibrated = 31000 /\ pc = "loop"

\* the positions of the firmware inside showClock()
ClockPcs == {"clock", "clock_btn", "wp_gate", "wp_open", "wp_settle",
             "wp_dispense", "wp_closing", "wp_done", "wp_ret"}

\* C13: while automatic mode is enabled the firmware is inside showClock(),
\* waterDuration is exactly targetCups times oneCupCalibrated, the pump of
\* an automatic dispense runs for exactly that time, and no step changes
\* oneCupCalibrated.
C13_DurationIsCupsTimesFactor ==
  /\ [](isAutoModeEnabled =>
          /\ pc \in ClockPcs
          /\ 2 * waterDuration = targetCups * oneCupCalibrated)
  /\ [][ (pc = "wp_dispense" /\ pc' = "wp_closing")
           => 2 * (sinceAttempt' - sinceAttempt) = targetCups * oneCupCalibrated
       ]_vars
  /\ [][ (isAutoModeEnabled /\ isAutoModeEnabled') => UNCHANGED oneCupCalibrated
       ]_vars

\* C13 witness: factor 20000 and 1.5 cups, the automatic dispense has run
\* for 30000 ms
C13_Witness ==
  /\ isAutoModeEnabled
  /\ oneCupCalibrated = 20000
  /\ targetCups = 3
  /\ waterDuration = 30000
  /\ pc = "wp_closing"

\* C14: for every stored factor and every volume v from 0.5 to 5.0 cups the
\* duration the setup computed for v, doubled, is the duration for 2 * v.
C14_ConversionLinear ==
  (pc = "auto_freq" /\ 2 * targetCups \in CupValues)
    => durationForCups(2 * targetCups, oneCupCalibrated) = 2 * waterDuration

\* C14 witness: 2.5 cups at factor 1000 give 2500 ms
C14_Witness ==
  /\ pc = "auto_freq"
  /\ targetCups = 5
  /\ oneCupCalibrated = 1000
  /\ waterDuration = 2500

\* C15: waterTestDuration stays within 1000..60000 and targetCups within 0.5
\* to 10 cups whatever is pressed, a stored factor is a test duration, and so
\* waterDuration and the pump time of an automatic dispense are at most
\* 600000 ms and the pump time of a calibration dispense at most 60000 ms.
C15_DurationsBounded ==
  /\ [](/\ waterTestDuration >= 1000 /\ waterTestDuration <= 60000
        /\ targetCups \in CupValues
        /\ oneCupCalibrated = 0 \/ oneCupCalibrated \in TestDurations
        /\ waterDuration <= 600000)
  /\ [][ (pc = "wp_dispense" /\ pc' = "wp_closing")
           => sinceAttempt' - sinceAttempt <= 600000 ]_vars

\* C15 witness: the longest automatic dispense, 10 cups at factor 60000
C15_Witness ==
  /\ pc = "wp_dispense"
  /\ targetCups = 20
  /\ oneCupCalibrated = 60000
  /\ waterDuration = 600000

\* the positions of the firmware inside manualWatering()
ManualPcs == {"man_gate0", "man_gate1", "man_poll", "man_open", "man_on",
              "man_off", "man_close", "man_exitchk", "man_x_off",
              "man_x_close", "man_exit"}

\* C16: in manualWatering() the pump is energized only while M was held at
\* the last poll and the gate call of that hold allowed; the poll that sees
\* M released de-energizes the pump and closes the valve before anything
\* else; and on every return from manualWatering() the pump is off and the
\* valve is closed.
C16_ManualPumpFollowsButton ==
  /\ [](pc \in ManualPcs =>
          /\ (pumpPin > 0 /\ pc # "man_off")
               => (currentlyWatering /\ gateFresh /\ gateResult = "Allowed")
          /\ (pc \in {"man_poll", "man_exitchk"} /\ ~currentlyWatering)
               => (pumpPin = 0 /\ pumpValvePin = LOW)
          /\ pc = "man_exit" => (pumpPin = 0 /\ pumpValvePin = LOW))
  /\ [][ /\ (pc = "man_poll" /\ currentlyWatering /\ ~currentlyWatering')
              => pc' = "man_off"
         /\ pc = "man_off" => (pumpPin' = 0 /\ pc' = "man_close")
         /\ pc = "man_close" => (pumpValvePin' = LOW /\ pc' = "man_exitchk")
         /\ (pc \in ManualPcs /\ pc' = "loop")
              => (pumpPin' = 0 /\ pumpValvePin' = LOW) ]_vars

\* C16 witness: M was released during a hold that watered, the pump has
\* been stopped and the valve is about to be closed
C16_Witness ==
  /\ pc = "man_close"
  /\ ~currentlyWatering
  /\ pumpPin = 0
  /\ pumpValvePin = HIGH

C18_PhaseOrder ==
  /\ [][ /\ (pc = "wp_open" /\ pc' # pc) => pc' = "wp_settle"
         /\ (pc = "wp_settle" /\ pc' # pc) => pc' = "wp_dispense"
         /\ (pc = "wp_dispense" /\ pc' # pc) => pc' = "wp_closing"
         /\ (pc = "wp_closing" /\ pc' # pc) => pc' = "wp_done"
         /\ (pc = "cal_open" /\ pc' # pc) => pc' = "cal_settle"
         /\ (pc = "cal_settle" /\ pc' # pc) => pc' = "cal_dispense"
         /\ (pc = "cal_dispense" /\ pc' # pc) => pc' = "cal_closing"
         /\ (pc = "cal_closing" /\ pc' # pc) => pc' = "cal_done" ]_vars
  /\ [](/\ pc \in {"wp_open", "cal_open", "wp_done", "cal_done"}
             => (pumpPin = 0 /\ pumpValvePin = LOW)
        /\ pc \in {"wp_settle", "cal_settle", "wp_closing", "cal_closing"}
             => (pumpPin = 0 /\ pumpValvePin = HIGH)
        /\ pc \in {"wp_dispense", "cal_dispense"}
             => (pumpPin > 0 /\ pumpValvePin = HIGH))
  /\ (pc \in {"wp_open", "cal_open"})
       ~> (pc \in {"wp_done", "cal_done"} /\ pumpPin = 0 /\ pumpValvePin = LOW)

\* C18 witness: an automatic dispense has arrived at idle
C18_Witness ==
  /\ pc = "wp_done"
  /\ gateFresh
  /\ pumpPin = 0
  /\ pumpValvePin = LOW

\* C19: waterInterval, isAutoModeEnabled and autoTimer are changed only by
\* the step that confirms the auto mode setup, by button A on the clock
\* screen in auto mode and by the step that records an automatic attempt;
\* while auto mode stays enabled the time since autoTimer advances with the
\* clock; no step of manualWatering(), waterCalibrationTest(),
\* settingsMenu() or of an auto mode setup that is not confirmed changes
\* any of the three.
C19_ScheduleFrame ==
  [][ LET enable  == pc = "auto_freq" /\ pc' = "clock"
          disable == pc \in {"clock", "clock_btn"} /\ isAutoModeEnabled
                       /\ ~isAutoModeEnabled'
          fire    == pc = "wp_ret" /\ pc' = "clock_btn"
      IN /\ waterInterval' # waterInterval => enable
         /\ isAutoModeEnabled' # isAutoModeEnabled => (enable \/ disable)
         /\ autoTimerSetBy' # autoTimerSetBy => (enable \/ fire)
         /\ (isAutoModeEnabled /\ isAutoModeEnabled'
               /\ sinceAutoTimer' < sinceAutoTimer) => fire
         /\ (isAutoModeEnabled /\ isAutoModeEnabled' /\ ~fire
               /\ sinceAttempt # -1 /\ pc' # "wp_gate")
              => sinceAutoTimer' - sinceAutoTimer = sinceAttempt' - sinceAttempt
         /\ (\/ pc \in ManualPcs \cup CalibrationPcs
             \/ pc \in {"settings", "auto_entry", "auto_value"}
             \/ (pc = "auto_freq" /\ pc' # "clock"))
              => UNCHANGED <<waterInterval, isAutoModeEnabled, autoTimerSetBy,
                             sinceAutoTimer>> ]_vars

\* C19 witness: a schedule of 60 that has fired and was disabled; a later
\* setup was left with A after the frequency had been raised to 120
C19_Witness ==
  /\ pc = "loop"
  /\ ~isAutoModeEnabled
  /\ waterInterval = 60
  /\ waterIntervalHour = 120
  /\ autoTimerSetBy = "autoWateringCheck"

C21_GateHasNoSideEffects ==
  [][ (pc \in GatePcs) =>
       /\ UNCHANGED <<pumpPin, pumpValvePin, isAutoModeEnabled, waterInterval,
                      oneCupCalibrated, autoTimerSetBy>>
       /\ sinceAutoTimer' >= sinceAutoTimer
       /\ ((isAutoModeEnabled /\ sinceAttempt >= 0) =>
             (sinceAutoTimer' - sinceAutoTimer = sinceAttempt' - sinceAttempt))
    ]_vars

\* the gate of an automatic attempt has denied and the schedule still shows
\* the elapsed interval
C21_Witness ==
  /\ pc = "wp_ret"
  /\ gateResult # "Allowed"
  /\ isAutoModeEnabled
  /\ sinceAutoTimer >= IntervalMilli(waterInterval) + messageDisplayDuration
  /\ pumpPin = 0
  /\ pumpValvePin = LOW

C23_SafeRestingState ==
  /\ [](pc = "loop" => (pumpPin = 0 /\ pumpValvePin = LOW))
  /\ [][(pc # "loop" /\ pc' = "loop") => (pumpPin' = 0 /\ pumpValvePin' = LOW)]_vars

\* back in loop() after a calibration run whose dispense was allowed, with
\* the factor saved and the valve closed for less than the settle time
C23_Witness ==
  /\ pc = "loop"
  /\ currentMenu = 0
  /\ gateResult = "Allowed"
  /\ oneCupCalibrated > 0
  /\ valveOpenFor = pumpValveTiming
  /\ pumpPin = 0
  /\ pumpValvePin = LOW

\* C24: no step energizes the pump while the water level sensor at
\* waterSensorPin reports low water, on any dispense path: manual,
\* calibration, and automatic waterings fired from the clock screen.
C24_NoPumpStartOnLowWater ==
  [][ (pumpPin = 0 /\ pumpPin' > 0) => isWaterDetected ]_vars

\* C25: on the clock screen with automatic mode enabled, a pass that finds
\* the interval elapsed leads to an automatic attempt (the gate evaluation
\* of waterPlant()), and from any pass an attempt follows unless automatic
\* mode is disabled first, whatever buttons are pressed or not pressed.
C25_DueLeadsToAttempt ==
  /\ (isAutoModeEnabled /\ pc = "clock" /\ autoWateringDue(0)) ~> (pc = "wp_gate")
  /\ (isAutoModeEnabled /\ pc = "clock") ~> (pc = "wp_gate" \/ ~isAutoModeEnabled)

\* the second attempt of an enabling of auto mode begins, a full interval
\* after the first was recorded
C25_Witness ==
  /\ pc = "wp_gate"
  /\ isAutoModeEnabled
  /\ autoTimerSetBy = "autoWateringCheck"
  /\ sinceAttempt = 0
  /\ sinceAutoTimer >= IntervalMilli(waterInterval)

C28_ThresholdIsProduct ==
  /\ [](isAutoModeEnabled =>
          (waterInterval \in IntervalValues
             /\ IntervalMilli(waterInterval) = waterInterval * 1000))
  /\ [][ (pc # "wp_gate" /\ pc' = "wp_gate") =>
           sinceAutoTimer >= waterInterval * 1000 ]_vars

\* C29: waterIntervalHour is always a multiple of 60 from 60 to 1440, and
\* so is the value either button of the frequency step would store next:
\* - at 60 gives 60 (the 16 bit unsigned sum wraps to 0 and is constrained)
\* and + at 1440 gives 1440; the confirmed waterInterval is 0 before the
\* first setup and a multiple of 60 from 60 to 1440 ever after.
C29_IntervalWithinRange ==
  /\ waterIntervalHour \in IntervalValues
  /\ \A direction \in {-1, 1} :
       nextIntervalHour(waterIntervalHour, direction) \in IntervalValues
  /\ nextIntervalHour(waterIntervalDelta, -1) = waterIntervalDelta
  /\ nextIntervalHour(maxWaterIntervalHour, 1) = maxWaterIntervalHour
  /\ waterInterval \in IntervalValues \cup {0}
  /\ isAutoModeEnabled => waterInterval \in IntervalValues

\* in the frequency step - has been pressed at 120 of an earlier setup: the
\* setting is at its lower bound, where a further - leaves it
C29_Witness ==
  /\ pc = "auto_freq"
  /\ waterInterval = 120
  /\ waterIntervalHour = waterIntervalDelta
  /\ nextIntervalHour(waterIntervalHour, -1) = waterIntervalHour

\* C30: on the clock screen with automatic mode enabled, the remaining time
\* showMessageCycleClock() computes for a timestamp is 0 exactly when the
\* condition of autoWateringCheck() holds at that timestamp and positive
\* exactly when it does not, for every timestamp of the next pass; and a
\* pass of the loop goes on to waterPlant() exactly when the remaining time
\* it has computed is 0.
C30_CountdownAgreesWithScheduler ==
  /\ []((isAutoModeEnabled /\ pc = "clock") =>
          \A d \in 0..inputDebounceDelay :
            LET r == remainingTimeFor(sinceAutoTimer + d, waterInterval)
            IN /\ r >= 0
               /\ (r = 0) <=> autoWateringDue(d))
  /\ [][ (isAutoModeEnabled /\ pc = "clock" /\ pc' # "loop") =>
           /\ elaspedTime' >= sinceAutoTimer
           /\ (pc' = "wp_gate") <=> (remainingTime' = 0)
           /\ (pc' = "clock") <=> (remainingTime' > 0) ]_vars

\* a pass with interval 1440 has computed the remaining time 0 and called
\* waterPlant()
C30_Witness ==
  /\ pc = "wp_gate"
  /\ waterInterval = maxWaterIntervalHour
  /\ remainingTime = 0
  /\ elaspedTime >= IntervalMilli(waterInterval)
  /\ sinceAttempt = 0


\* C31: one physical press produces one press event: while a button is
\* held down, the polling loop gets true from isButtonPressed() for it at
\* most once
C31_OneEventPerPress ==
  \A p \in ButtonIndexes : heldEvents[p] <= 1


\* C32: a pass of the polling loop gets true from isButtonPressed() for a
\* button only when the sampled level changed to LOW: the button reads LOW,
\* the recorded state was HIGH and becomes LOW, and the last recorded change
\* and the last press event are at least debounceDuration back; a pass less
\* than debounceDuration after the last recorded change gets no press event
\* and changes neither the recorded state nor anything the buttons set
C32_Debounce ==
  [][ /\ (pressEvent' # -1) =>
           /\ buttonLevel[pressEvent'] = LOW
           /\ lastButtonState = HIGH
           /\ lastButtonState' = LOW
           /\ sinceButtonChange >= debounceDuration
           /\ sincePress >= debounceDuration
      /\ (buttonLevel' = buttonLevel /\ sinceButtonChange < debounceDuration) =>
           /\ pressEvent' = -1
           /\ lastButtonState' = lastButtonState
           /\ sinceButtonChange' > sinceButtonChange
           /\ UNCHANGED <<pc, currentMenu, waterIntervalHour, waterInterval,
                          isAutoModeEnabled, heldEvents>>
    ]_vars

\* the + button is down and the loop has taken its press event: the
\* interval went up by one step
C32_Witness ==
  /\ pressEvent = 1
  /\ heldEvents[1] = 1
  /\ buttonLevel[1] = LOW
  /\ lastButtonState = LOW
  /\ waterIntervalHour = 2 * waterIntervalDelta


\* C33: readSoilMoisture() caches for 5 seconds: a call of isPlantOkayToWater,
\* which reaches readSoilMoisture() sensorWarmTime from now, less than
\* documentedCacheWindow after the last actual read gets the cached value and
\* the sensor is not read; after every call the soil sensor power is LOW
C33_CachedForFiveSeconds ==
  [][ (pc \in GatePcs) =>
        /\ ( /\ sinceLastReading < soilCacheWindow
             /\ sinceLastReading + sensorWarmTime < documentedCacheWindow ) =>
               /\ moistureLevel' = lastMoisture
               /\ UNCHANGED <<lastMoisture, lastRawMoistureValue>>
        /\ soilPower' = LOW
    ]_vars

====
